---------------------------- MODULE Spec2Model ----------------------------
(***************************************************************************)
(* A model of the trading-agent web client: the Playground chat page (both *)
(* versions found in the repository: the "generative" one of               *)
(* pages/Playground.tsx with screener / recommender / trade steps, and the *)
(* "analysis" one of unnamed/part_001), the auth store, ProtectedRoute and *)
(* the Landing login form.                                                 *)
(*                                                                         *)
(* JavaScript strings on which the code computes (trim, toLowerCase,       *)
(* includes) are sequences of one-character strings.  Texts the code only  *)
(* copies are sequences of one opaque chunk.  null and undefined are the   *)
(* strings Null and Undefined.  Message ids (Date.now plus Math.random)    *)
(* and timestamps are not modelled; instead every message carries the      *)
(* number of the submission it belongs to (sub) as a history field.        *)
(***************************************************************************)
EXTENDS Integers, Sequences, FiniteSets, TLC

\* ------------------------------------------------------------------ bounds
MaxSubmits == 2
MaxClicks == 2
MaxFragments == 2
MaxLogins == 2
MaxArgs == 2

\* --------------------------------------------------------- JavaScript values
Null == "null"
Undefined == "undefined"

\* !x for a token: null, undefined and the empty string are falsy.
Falsy(x) == x \in {Null, Undefined, ""}
Truthy(x) == ~Falsy(x)

\* a || b
Or(a, b) == IF Truthy(a) THEN a ELSE b

UpperAlpha == <<"A","B","C","D","E","F","G","H","I","J","K","L","M",
                "N","O","P","Q","R","S","T","U","V","W","X","Y","Z">>
LowerAlpha == <<"a","b","c","d","e","f","g","h","i","j","k","l","m",
                "n","o","p","q","r","s","t","u","v","w","x","y","z">>

ToLowerChar(c) ==
    IF \E i \in DOMAIN UpperAlpha : UpperAlpha[i] = c
    THEN LowerAlpha[CHOOSE i \in DOMAIN UpperAlpha : UpperAlpha[i] = c]
    ELSE c

\* String.prototype.toLowerCase
ToLowerCase(s) == [i \in DOMAIN s |-> ToLowerChar(s[i])]

\* String.prototype.includes
Includes(s, sub) ==
    \E i \in 0..(Len(s) - Len(sub)) : SubSeq(s, i + 1, i + Len(sub)) = sub

IsSpace(c) == c \in {" ", "\t", "\n"}

RECURSIVE TrimStart(_)
TrimStart(s) ==
    IF s # <<>> /\ IsSpace(Head(s)) THEN TrimStart(Tail(s)) ELSE s

RECURSIVE TrimEnd(_)
TrimEnd(s) ==
    IF s # <<>> /\ IsSpace(s[Len(s)])
    THEN TrimEnd(SubSeq(s, 1, Len(s) - 1))
    ELSE s

\* String.prototype.trim
Trim(s) == TrimEnd(TrimStart(s))

\* ------------------------------------------------------------ keyword texts
KwScreener == <<"s","c","r","e","e","n","e","r">>
KwVisualizer == <<"v","i","s","u","a","l","i","z","e","r">>
KwRecommender == <<"r","e","c","o","m","m","e","n","d","e","r">>
KwBuy == <<"b","u","y">>
KwSell == <<"s","e","l","l">>
KwTicker == <<"t","i","c","k","e","r">>
KwFundamentals == <<"f","u","n","d","a","m","e","n","t","a","l","s">>
KwTechnical == <<"t","e","c","h","n","i","c","a","l">>
KwSentiment == <<"s","e","n","t","i","m","e","n","t">>
KwNews == <<"n","e","w","s">>
KwResearch == <<"r","e","s","e","a","r","c","h">>
KwTrader == <<"t","r","a","d","e","r">>

\* The values a field of the response body (data, trading_analysis) can hold.
\*   Undefined   the field is absent
\*   Null        null
\*   "zero"      0
\*   "array"     a non-empty array of stocks
\*   "array0"    the empty array (truthy in JavaScript)
\*   "object"    an object without workflow_id
\*   "workflow"  an object with a workflow_id property
JsonValues == {Undefined, Null, "zero", "array", "array0", "object", "workflow"}

JsTruthy(v) == v \notin {Undefined, Null, "zero"}
TypeofObject(v) == v \in {Null, "array", "array0", "object", "workflow"}
HasWorkflowId(v) == v = "workflow"
IsArray(v) == v \in {"array", "array0"}

\* ------------------------------------------------------------- agent names
AgentSuffix == <<" ","A","g","e","n","t">>
NameScreenerAgent == <<"S">> \o Tail(KwScreener) \o AgentSuffix
NameRecommenderAgent == <<"R">> \o Tail(KwRecommender) \o AgentSuffix
NameBuyAgent == <<"B">> \o Tail(KwBuy) \o AgentSuffix
NameSellAgent == <<"S">> \o Tail(KwSell) \o AgentSuffix
NameTraderAgent == <<"T">> \o Tail(KwTrader) \o AgentSuffix
NameMarcus == <<"M","a","r","c","u","s">>
NameSystem == <<"System">>
\* An agentName / agent_name that is undefined (not a string at all).
UndefinedName == <<Undefined>>

\* ------------------------------------------------------- Playground: agents
Versions == {"generative", "analysis"}

\* The id of the first agent of the sidebar list.
Coordinator(v) == IF v = "generative" THEN "orchestrator" ELSE "coordinator"

AgentIds(v) ==
    IF v = "generative"
    THEN {"orchestrator", "visualizer", "screener", "recommender", "buy", "sell"}
    ELSE {"coordinator", "ticker", "fundamentals", "technical", "sentiment",
          "news", "research", "trader"}

\* useState<Agent[]>: every agent starts idle.
InitialAgents(v) == [a \in AgentIds(v) |-> "idle"]

\* prev.map(agent => agent.id === id ? {...agent, status} : agent)
SetStatus(ags, id, st) == [a \in DOMAIN ags |-> IF a = id THEN st ELSE ags[a]]

\* A variant that tests the keywords in another order.
getAgentIdFromName_swapped(agentName) ==
    LET n == ToLowerCase(agentName) IN
    IF Includes(n, KwVisualizer) THEN "visualizer"
    ELSE IF Includes(n, KwRecommender) THEN "recommender"
    ELSE IF Includes(n, KwSell) THEN "sell"
    ELSE IF Includes(n, KwBuy) THEN "buy"
    ELSE IF Includes(n, KwScreener) THEN "screener"
    ELSE "orchestrator"

\* Playground.tsx
getAgentIdFromName(agentName) ==
    LET n == ToLowerCase(agentName) IN
    IF Includes(n, KwScreener) THEN "screener"
    ELSE IF Includes(n, KwVisualizer) THEN "visualizer"
    ELSE IF Includes(n, KwRecommender) THEN "recommender"
    ELSE IF Includes(n, KwBuy) THEN "buy"
    ELSE IF Includes(n, KwSell) THEN "sell"
    ELSE "orchestrator"

\* part_001
getAgentIdFromName_analysis(agentName) ==
    LET n == ToLowerCase(agentName) IN
    IF Includes(n, KwTicker) THEN "ticker"
    ELSE IF Includes(n, KwFundamentals) THEN "fundamentals"
    ELSE IF Includes(n, KwTechnical) THEN "technical"
    ELSE IF Includes(n, KwSentiment) THEN "sentiment"
    ELSE IF Includes(n, KwNews) THEN "news"
    ELSE IF Includes(n, KwResearch) THEN "research"
    ELSE IF Includes(n, KwTrader) THEN "trader"
    ELSE "coordinator"

AgentIdFromName(v, agentName) ==
    IF v = "generative" THEN getAgentIdFromName(agentName)
    ELSE getAgentIdFromName_analysis(agentName)

\* ------------------------------------------- Playground: interactive payload
\* What a message's interactive field holds: undefined, null or a component.
\* A variant that also hands out the recommendation buttons for a reply of
\* the recommender.
createInteractiveComponent_eager(stockData, agentName) ==
    IF Includes(ToLowerCase(agentName), KwScreener) /\ JsTruthy(stockData)
    THEN "ScreenerResponseWithData"
    ELSE IF Includes(ToLowerCase(agentName), KwRecommender)
    THEN "RecommenderResponse"
    ELSE Null

\* Playground.tsx
createInteractiveComponent(stockData, agentName) ==
    IF Includes(ToLowerCase(agentName), KwScreener) /\ JsTruthy(stockData)
    THEN "ScreenerResponseWithData"
    ELSE Null

\* part_001
createInteractiveComponent_analysis(data, agentName) ==
    IF JsTruthy(data) /\ TypeofObject(data) /\ HasWorkflowId(data)
    THEN "TradingAnalysisDisplay"
    ELSE IF IsArray(data) THEN Null
    ELSE Null

\* The interactive field of the agent message built from a response body.
InteractiveOf(v, data) ==
    IF v = "generative"
    THEN IF JsTruthy(data.data)
         THEN createInteractiveComponent(data.data, data.agent_name)
         ELSE Undefined
    ELSE IF JsTruthy(data.trading_analysis)
         THEN createInteractiveComponent_analysis(data.trading_analysis, data.agent_name)
         ELSE IF JsTruthy(data.data)
              THEN createInteractiveComponent_analysis(data.data, data.agent_name)
              ELSE Undefined

\* {interactive && ...} in ChatMessage: a payload is rendered when truthy.
Rendered(interactive) == interactive \notin {Undefined, Null}

\* ------------------------------------------------------------------- state
VARIABLES
    \* Playground (React state of the mounted page)
    version,        \* which Playground this is: "generative" or "analysis"
    query,          \* the input's text
    isTyping,
    messages,       \* the chat history
    agents,         \* agent id -> status
    \* Playground (asynchronous work)
    timers,         \* pending setTimeout callbacks, in the order they were set
    calls,          \* calls[n]: the processUserQuery call of submission n
    requests,       \* every POST /api/chat/message sent so far
    nClicks,        \* clicks on buttons of interactive messages so far
    \* auth store (zustand) and localStorage
    user, token, isAuthenticated, isLoading, error,
    localAccessToken,  \* localStorage.getItem('access_token')
    logins,         \* the login calls made so far, each with its position
    registers,      \* the register calls made so far, each with its position
    authRequests,   \* the requests the auth store has sent so far (a set)
    storage,        \* localStorage 'auth-storage': <<>> or <<the snapshot>>
    \* router, Landing and ProtectedRoute
    location,       \* the current path: "/" or "/playground"
    landingIsLoading,
    nLoginSubmits,  \* submissions of the Landing login form so far
    protectedIsLoading,
    hasValidAuth,
    logoutPc,       \* handleLogout: "idle", or "navigate" after await logout()
    \* the reply builder applied to one response body
    replyBody, replyAgentId, replyMessage,
    \* the ADK start scripts: which one is run, with what arguments, and the
    \* command it executes (<<>> before it ran)
    script, scriptArgs, command,
    \* TradingAnalysisDisplay: the trading_decision it is given and what it
    \* renders for it (<<>> before it rendered)
    decision, display

chatVars == <<version, query, isTyping, messages, agents, calls, requests, nClicks>>
authVars == <<user, token, isAuthenticated, isLoading, error, localAccessToken,
              logins, registers, authRequests, storage>>
routeVars == <<location, landingIsLoading, nLoginSubmits, protectedIsLoading,
               hasValidAuth, logoutPc>>
replyVars == <<replyBody, replyAgentId, replyMessage>>
scriptVars == <<script, scriptArgs, command>>
displayVars == <<decision, display>>
\* The variables of the pure functions modelled on their own.
pureVars == <<replyVars, scriptVars, displayVars>>
\* What the Playground's chat operations leave alone.
appVars == <<authVars, routeVars, pureVars>>
vars == <<chatVars, timers, authVars, routeVars, pureVars>>

\* ------------------------------------------------------------------ inputs
\* What the user can type into the input: a blank text and a text with
\* leading and trailing spaces.
Queries == { <<" ">>, <<" ","b"," ">> }

ReplyMessage == <<"Here is the result.">>

Body(name, data, analysis) ==
    [agent_name |-> name, message |-> ReplyMessage, data |-> data,
     trading_analysis |-> analysis]

\* What response.json() can resolve to in the chat model, for each Playground.
ReplyBodies(v) ==
    IF v = "generative"
    THEN {Body(NameScreenerAgent, "array", Undefined),
          Body(NameScreenerAgent, Undefined, Undefined),
          Body(NameRecommenderAgent, "array", Undefined),
          Body(<<"O","r","c","h">>, Undefined, Undefined),
          Body(UndefinedName, Undefined, Undefined)}
    ELSE {Body(NameTraderAgent, Undefined, "workflow"),
          Body(NameTraderAgent, Undefined, "object"),
          Body(NameMarcus, Undefined, Undefined),
          Body(NameMarcus, "array", Undefined),
          Body(UndefinedName, Undefined, Undefined)}

\* The tokens the page can find when it is mounted: <<store token,
\* localStorage 'access_token'>>.
TokenStates ==
    { <<Null, Null>>, <<Null, "">>, <<Null, "tokB">>,
      <<"tokA", Null>>, <<"tokA", "tokB">> }

\* ------------------------------------------------------------------ timers
ChatDelay == 1000
RecommenderDelay == 2000
TradeDelay == 1500
LandingDelay == 1500
CheckAuthDelay == 150

Delay(t) ==
    CASE t.kind = "chat" -> ChatDelay
      [] t.kind = "recommender" -> RecommenderDelay
      [] t.kind = "trade" -> TradeDelay
      [] t.kind = "landing" -> LandingDelay
      [] t.kind = "protected" -> CheckAuthDelay

\* setTimeout: the timer at position i can be the next to fire unless a timer
\* set before it has a delay that is not longer (that one is due first).
CanFire(i) ==
    /\ i \in DOMAIN timers
    /\ \A j \in 1..(i - 1) : Delay(timers[j]) > Delay(timers[i])

RemoveAt(seq, i) == SubSeq(seq, 1, i - 1) \o SubSeq(seq, i + 1, Len(seq))

\* ------------------------------------------- auth store: persisted snapshot
\* The state the store is created with.
InitialState ==
    [user |-> Null, token |-> Null, isAuthenticated |-> FALSE,
     isLoading |-> FALSE, error |-> Null]

\* A variant that also persists the error.
partialize_withError(state) ==
    [token |-> state.token, user |-> state.user,
     isAuthenticated |-> state.isAuthenticated, error |-> state.error]

\* persist's partialize option: what of the state is saved.
partialize(state) ==
    [token |-> state.token, user |-> state.user,
     isAuthenticated |-> state.isAuthenticated]

\* JSON.stringify of one property value that is a string, null, an object of
\* a response body, or undefined: <<>> stands for 'the property is left out',
\* which is what JSON.stringify does with undefined.
JsonValue(v) ==
    IF v = Undefined THEN <<>>
    ELSE IF v = Null THEN <<"null">>
    ELSE <<"value", v>>

\* JSON.stringify of a boolean property value.
JsonBoolean(b) == IF b THEN <<"true">> ELSE <<"false">>

\* JSON.stringify of the partial state: the JSON text, as the properties it
\* holds with the text of each.
Stringify(partial) ==
    LET text == [k \in DOMAIN partial |->
                    IF k = "isAuthenticated" THEN JsonBoolean(partial[k])
                    ELSE JsonValue(partial[k])]
    IN  [k \in {j \in DOMAIN text : text[j] # <<>>} |-> text[k]]

\* JSON.parse of one property.
ParseValue(text) == IF text = <<"null">> THEN Null ELSE text[2]
ParseBoolean(text) == text = <<"true">>

\* persist's default merge, {...currentState, ...persistedState}, applied to
\* the parsed snapshot; only the properties the store declares are read.
Merge(current, snapshot) ==
    [k \in DOMAIN current |->
        IF k \in DOMAIN snapshot
        THEN IF k = "isAuthenticated" THEN ParseBoolean(snapshot[k])
             ELSE ParseValue(snapshot[k])
        ELSE current[k]]

\* The state of the store as a record.
StoreState(u, t, a, l, e) ==
    [user |-> u, token |-> t, isAuthenticated |-> a, isLoading |-> l, error |-> e]

\* What persist writes to localStorage for a state.
Snapshot(state) == <<Stringify(partialize(state))>>

\* persist wraps set: every set is followed by the write of the new state's
\* snapshot.
setItem ==
    storage' = Snapshot(StoreState(user', token', isAuthenticated', isLoading', error'))

\* ---------------------------------------------------------------- messages
welcome(v) ==
    [type |-> "agent",
     content |-> IF v = "generative" THEN <<"Welcome to Industry Agent! ...">>
                 ELSE <<"Hello! I'm Marcus Wellington, ...">>,
     agentName |-> IF v = "generative" THEN <<"Orchestrator Agent">> ELSE NameMarcus,
     interactive |-> Undefined, sub |-> 0, via |-> "none"]

userMessage(q, n) ==
    [type |-> "user", content |-> q, agentName |-> UndefinedName,
     interactive |-> Undefined, sub |-> n, via |-> "none"]

\* A variant that normalises the agent's name before showing it.
agentMessage_lowercased(v, data, n) ==
    [type |-> "agent", content |-> data.message,
     agentName |-> ToLowerCase(data.agent_name),
     interactive |-> InteractiveOf(v, data), sub |-> n, via |-> "none"]

agentMessage(v, data, n) ==
    [type |-> "agent", content |-> data.message, agentName |-> data.agent_name,
     interactive |-> InteractiveOf(v, data), sub |-> n, via |-> "none"]

errorMessage(n) ==
    [type |-> "agent",
     content |-> <<"I'm having trouble processing your request right now. Please try again later.">>,
     agentName |-> NameSystem, interactive |-> Undefined, sub |-> n, via |-> "none"]

\* ------------------------------------------------- Playground: chat request
\* const token = storeToken || localStorage.getItem('access_token')
\* (a variant that prefers the localStorage token)
AuthToken_localFirst(storeToken, stored) == Or(stored, storeToken)

AuthToken(storeToken, stored) == Or(storeToken, stored)

\* JSON.stringify({message: userQuery})
\* (a variant that sends the trimmed text)
RequestBody_trimmed(userQuery) == [message |-> Trim(userQuery)]

RequestBody(userQuery) == [message |-> userQuery]

ChatRequest(n, tok, userQuery) ==
    [sub |-> n, method |-> "POST",
     url |-> "http://localhost:8000/api/chat/message",
     authorization |-> <<"Bearer ", tok>>,
     body |-> RequestBody(userQuery)]

\* A variant of the catch block that sends the request again instead of
\* giving up.
CatchBlock_retry(n) ==
    /\ requests' = Append(requests,
           ChatRequest(n, AuthToken(token, localAccessToken), calls[n].userQuery))
    /\ calls' = [calls EXCEPT ![n].pc = "fetch"]
    /\ UNCHANGED <<messages, agents, isTyping>>

\* A variant of the catch block that is not followed by setIsTyping(false),
\* as if that call stood inside the try block.
CatchBlock_stuck(n) ==
    /\ messages' = Append(messages, errorMessage(n))
    /\ agents' = SetStatus(agents, Coordinator(version), "completed")
    /\ calls' = [calls EXCEPT ![n].pc = "done", ![n].result = "error"]
    /\ UNCHANGED <<isTyping, requests>>

\* A variant of the catch block that does not reset the coordinator's status.
CatchBlock_noReset(n) ==
    /\ messages' = Append(messages, errorMessage(n))
    /\ isTyping' = FALSE
    /\ calls' = [calls EXCEPT ![n].pc = "done", ![n].result = "error"]
    /\ UNCHANGED <<agents, requests>>

\* processUserQuery: the catch block, and the setIsTyping(false) after it.
CatchBlock(n) ==
    /\ messages' = Append(messages, errorMessage(n))
    /\ agents' = SetStatus(agents, Coordinator(version), "completed")
    /\ isTyping' = FALSE
    /\ calls' = [calls EXCEPT ![n].pc = "done", ![n].result = "error"]
    /\ UNCHANGED requests

\* A variant of handleSubmit that forgets setIsTyping(true).
handleSubmit_notTyping ==
    /\ (Trim(query) # <<>> /\ ~isTyping) => Len(calls) < MaxSubmits
    /\ IF Trim(query) = <<>> \/ isTyping
       THEN UNCHANGED <<query, isTyping, messages, agents, timers, calls>>
       ELSE LET n == Len(calls) + 1 IN
            /\ messages' = Append(messages, userMessage(query, n))
            /\ query' = <<>>
            /\ agents' = SetStatus(agents, Coordinator(version), "processing")
            /\ timers' = Append(timers, [kind |-> "chat", sub |-> n, via |-> "none"])
            /\ calls' = Append(calls, [pc |-> "timer", userQuery |-> query,
                                       result |-> "none"])
            /\ UNCHANGED isTyping
    /\ UNCHANGED <<version, requests, nClicks, appVars>>

\* handleSubmit (the form's onSubmit).
handleSubmit ==
    /\ (Trim(query) # <<>> /\ ~isTyping) => Len(calls) < MaxSubmits
    /\ IF Trim(query) = <<>> \/ isTyping
       THEN UNCHANGED <<query, isTyping, messages, agents, timers, calls>>
       ELSE LET n == Len(calls) + 1 IN
            /\ messages' = Append(messages, userMessage(query, n))
            /\ query' = <<>>
            /\ isTyping' = TRUE
            /\ agents' = SetStatus(agents, Coordinator(version), "processing")
            /\ timers' = Append(timers, [kind |-> "chat", sub |-> n, via |-> "none"])
            /\ calls' = Append(calls, [pc |-> "timer", userQuery |-> query,
                                       result |-> "none"])
    /\ UNCHANGED <<version, requests, nClicks, appVars>>

\* The input's onChange; the input is disabled while isTyping.
TypeQuery(q) ==
    /\ ~isTyping
    /\ query' = q
    /\ UNCHANGED <<version, isTyping, messages, agents, timers, calls, requests,
                   nClicks, appVars>>

\* The 1000 ms timer fires: processUserQuery up to its first await.
ProcessStart(i) ==
    /\ CanFire(i)
    /\ timers[i].kind = "chat"
    /\ LET n == timers[i].sub
           tok == AuthToken(token, localAccessToken)
       IN  /\ timers' = RemoveAt(timers, i)
           /\ IF Falsy(tok)
              THEN CatchBlock(n)
              ELSE /\ requests' = Append(requests,
                                         ChatRequest(n, tok, calls[n].userQuery))
                   /\ calls' = [calls EXCEPT ![n].pc = "fetch"]
                   /\ UNCHANGED <<messages, agents, isTyping>>
    /\ UNCHANGED <<version, query, nClicks, appVars>>

\* fetch settles: it rejects, or resolves with a response that is ok or not.
FetchSettle(n, outcome) ==
    /\ n \in DOMAIN calls
    /\ calls[n].pc = "fetch"
    /\ IF outcome = "ok"
       THEN /\ calls' = [calls EXCEPT ![n].pc = "json"]
            /\ UNCHANGED <<messages, agents, isTyping, requests>>
       ELSE CatchBlock(n)
    /\ UNCHANGED <<version, query, timers, nClicks, appVars>>

\* response.json() rejects: the body is not JSON.
JsonReject(n) ==
    /\ n \in DOMAIN calls
    /\ calls[n].pc = "json"
    /\ CatchBlock(n)
    /\ UNCHANGED <<version, query, timers, nClicks, appVars>>

\* response.json() resolves with data: the rest of the try block.  An
\* agent_name that is not a string makes getAgentIdFromName throw.
JsonResolve(n, data) ==
    /\ n \in DOMAIN calls
    /\ calls[n].pc = "json"
    /\ IF data.agent_name = UndefinedName
       THEN CatchBlock(n)
       ELSE LET agentId == AgentIdFromName(version, data.agent_name)
                coord == Coordinator(version)
                processing ==
                    [a \in DOMAIN agents |->
                        IF a = agentId THEN "processing"
                        ELSE IF a = coord /\ agentId # coord THEN "completed"
                        ELSE agents[a]]
            IN  /\ messages' = Append(messages, agentMessage(version, data, n))
                /\ agents' = SetStatus(processing, agentId, "completed")
                /\ isTyping' = FALSE
                /\ calls' = [calls EXCEPT ![n].pc = "done", ![n].result = "reply"]
                /\ UNCHANGED requests
    /\ UNCHANGED <<version, query, timers, nClicks, appVars>>

\* ---------------------------------------------- Playground: scripted steps
\* <TradingResponse type=... />
TradingResponse(type) ==
    IF type = "buy" THEN "TradingResponse buy" ELSE "TradingResponse sell"

Displayed(component) ==
    \E k \in DOMAIN messages : messages[k].interactive = component

\* triggerRecommender, up to its setTimeout.
triggerRecommender ==
    /\ isTyping' = TRUE
    /\ agents' = SetStatus(agents, "recommender", "processing")
    /\ timers' = Append(timers, [kind |-> "recommender", sub |-> 0, via |-> "none"])

\* executeTrade, up to its setTimeout.  The function takes no argument; via
\* records which button ran it and is read by no operation.
executeTrade(via) ==
    /\ isTyping' = TRUE
    /\ agents' = SetStatus(agents, "buy", "processing")
    /\ timers' = Append(timers, [kind |-> "trade", sub |-> 0, via |-> via])

\* The button of a displayed ScreenerResponseWithData: onNext.
ClickGetRecommendations ==
    /\ nClicks < MaxClicks
    /\ Displayed("ScreenerResponseWithData")
    /\ triggerRecommender
    /\ nClicks' = nClicks + 1
    /\ UNCHANGED <<version, query, messages, calls, requests, appVars>>

\* A button of a displayed RecommenderResponse ('Execute Buy Orders' or
\* 'Execute Sell Orders'): both are onClick={() => onNext()}.
ClickExecuteOrders(button) ==
    /\ nClicks < MaxClicks
    /\ Displayed("RecommenderResponse")
    /\ executeTrade(button)
    /\ nClicks' = nClicks + 1
    /\ UNCHANGED <<version, query, messages, calls, requests, appVars>>

\* The 2000 ms timer of triggerRecommender fires.
RecommenderTimer(i) ==
    /\ CanFire(i)
    /\ timers[i].kind = "recommender"
    /\ timers' = RemoveAt(timers, i)
    /\ messages' = Append(messages,
          [type |-> "agent",
           content |-> <<"Based on technical analysis, I've generated buy/sell recommendations. ...">>,
           agentName |-> NameRecommenderAgent,
           interactive |-> "RecommenderResponse", sub |-> 0, via |-> "none"])
    /\ agents' = SetStatus(agents, "recommender", "completed")
    /\ isTyping' = FALSE
    /\ UNCHANGED <<version, query, calls, requests, nClicks, appVars>>

\* The 1500 ms timer of executeTrade fires.
TradeTimer(i) ==
    /\ CanFire(i)
    /\ timers[i].kind = "trade"
    /\ timers' = RemoveAt(timers, i)
    /\ messages' = Append(messages,
          [type |-> "agent",
           content |-> <<"Trade execution completed successfully. Your portfolio has been updated with the new positions.">>,
           agentName |-> NameBuyAgent,
           interactive |-> TradingResponse("buy"), sub |-> 0,
           via |-> timers[i].via])
    /\ agents' = SetStatus(agents, "buy", "completed")
    /\ isTyping' = FALSE
    /\ UNCHANGED <<version, query, calls, requests, nClicks, appVars>>

\* The scripts and the display before anything ran.
ScriptIdle == script = "start_adk.sh" /\ scriptArgs = <<>> /\ command = <<>>
DisplayIdle == decision = [action |-> <<>>, position_size |-> 0] /\ display = <<>>

\* The auth store has made no call yet and its snapshot is in localStorage.
StoreIdle ==
    /\ logins = <<>>
    /\ registers = <<>>
    /\ authRequests = {}
    /\ storage = Snapshot(StoreState(user, token, isAuthenticated, isLoading, error))

\* ----------------------------------------------------------- specification
\* The Playground as mounted, for either version of the page and any token
\* the auth store and localStorage may hold at that time.
Init ==
    /\ version \in Versions
    /\ query = <<>>
    /\ isTyping = FALSE
    /\ messages = <<welcome(version)>>
    /\ agents = InitialAgents(version)
    /\ timers = <<>>
    /\ calls = <<>>
    /\ requests = <<>>
    /\ nClicks = 0
    /\ \E ts \in TokenStates : token = ts[1] /\ localAccessToken = ts[2]
    /\ isAuthenticated = (token # Null)
    /\ user = Null
    /\ isLoading = FALSE
    /\ error = Null
    /\ StoreIdle
    /\ location = "/playground"
    /\ landingIsLoading = FALSE
    /\ nLoginSubmits = 0
    /\ protectedIsLoading = FALSE
    /\ hasValidAuth = TRUE
    /\ logoutPc = "idle"
    /\ replyBody = Body(NameMarcus, Undefined, Undefined)
    /\ replyAgentId = Null
    /\ replyMessage = <<>>
    /\ ScriptIdle
    /\ DisplayIdle

Next ==
    \/ handleSubmit
    \/ \E q \in Queries : TypeQuery(q)
    \/ \E i \in DOMAIN timers : ProcessStart(i)
    \/ \E n \in DOMAIN calls : \E o \in {"reject", "notok", "ok"} : FetchSettle(n, o)
    \/ \E n \in DOMAIN calls : JsonReject(n)
    \/ \E n \in DOMAIN calls : \E d \in ReplyBodies(version) : JsonResolve(n, d)
    \/ ClickGetRecommendations
    \/ \E b \in {"buy", "sell"} : ClickExecuteOrders(b)
    \/ \E i \in DOMAIN timers : RecommenderTimer(i)
    \/ \E i \in DOMAIN timers : TradeTimer(i)

Spec == Init /\ [][Next]_vars

\* Fairness: a timer that is set fires, and a fetch or a body read that is
\* pending settles.
TimerFires ==
    \E i \in DOMAIN timers : ProcessStart(i) \/ RecommenderTimer(i) \/ TradeTimer(i)

Settles ==
    \E n \in DOMAIN calls :
        \/ \E o \in {"reject", "notok", "ok"} : FetchSettle(n, o)
        \/ JsonReject(n)
        \/ \E d \in ReplyBodies(version) : JsonResolve(n, d)

FairSpec == Spec /\ WF_vars(TimerFires) /\ WF_vars(Settles)

\* ------------------------------------------------------------------ claims
RequestsOf(n) == {k \in DOMAIN requests : requests[k].sub = n}
RepliesOf(n) == {k \in DOMAIN messages : messages[k].type = "agent" /\ messages[k].sub = n}
UserMessagesOf(n) == {k \in DOMAIN messages : messages[k].type = "user" /\ messages[k].sub = n}

\* C1: no retry. Every accepted submission causes at most one POST to
\* /api/chat/message, and a submission whose attempt failed (no token, network
\* error, non-OK status, unusable body) has sent at most that one request and
\* is answered by exactly one message, from 'System'.
C1_NoRetry ==
    \A n \in DOMAIN calls :
        /\ Cardinality(RequestsOf(n)) <= 1
        /\ \A k \in RequestsOf(n) :
              requests[k].method = "POST"
              /\ requests[k].url = "http://localhost:8000/api/chat/message"
        /\ calls[n].result = "error" =>
              /\ calls[n].pc = "done"
              /\ Cardinality(RepliesOf(n)) = 1
              /\ \A k \in RepliesOf(n) : messages[k].agentName = NameSystem

\* A request was sent, it failed, and the System message is in the chat.
C1_Witness ==
    \E n \in DOMAIN calls :
        /\ calls[n].result = "error"
        /\ RequestsOf(n) # {}
        /\ \E k \in RepliesOf(n) : messages[k].agentName = NameSystem

C2_Cycle ==
    \A n \in DOMAIN calls :
        /\ Cardinality(UserMessagesOf(n)) = 1
        /\ calls[n].pc = "timer" =>
              \E i \in DOMAIN timers : timers[i].kind = "chat" /\ timers[i].sub = n
        /\ calls[n].pc # "done" => RepliesOf(n) = {}
        /\ calls[n].pc = "done" =>
              /\ Cardinality(RepliesOf(n)) = 1
              /\ \A k \in RepliesOf(n) : \A u \in UserMessagesOf(n) : u < k

C2_Completes ==
    \A n \in DOMAIN calls :
        (calls[n].pc # "done" /\ calls'[n].pc = "done") => ~isTyping'

C2_Eventually == <>[](\A n \in DOMAIN calls : calls[n].pc = "done")

\* C2: every accepted submission completes its cycle. Once its timer has fired
\* and its fetch has settled, exactly one agent-side message of that submission
\* (the reply or the System error) stands after its user message, none before
\* that, the step that appends it leaves isTyping false, and under fair timers
\* and fetches every submission gets there.
C2_RequestResponseCycle == []C2_Cycle /\ [][C2_Completes]_vars /\ C2_Eventually

\* A submission completed with the server's reply and the input is enabled.
C2_Witness ==
    \E n \in DOMAIN calls :
        /\ calls[n].pc = "done" /\ calls[n].result = "reply"
        /\ ~isTyping

\* C3: the auth check comes before the request. A request is sent only when a
\* token is available (the store's token, else localStorage 'access_token'),
\* every request carries 'Bearer <that token>', and without a token no request
\* is sent and the call ends in the error path.
C3_AuthBeforeRequest ==
    LET available == IF Truthy(token) THEN token ELSE localAccessToken IN
    /\ \A k \in DOMAIN requests :
          /\ Truthy(available)
          /\ requests[k].authorization = <<"Bearer ", available>>
    /\ \A n \in DOMAIN calls :
          calls[n].pc # "timer" =>
              IF Truthy(available) THEN Cardinality(RequestsOf(n)) = 1
              ELSE RequestsOf(n) = {} /\ calls[n].result = "error"

\* The store holds no token and the request carries the localStorage one.
C3_Witness ==
    /\ token = Null
    /\ \E k \in DOMAIN requests : requests[k].authorization = <<"Bearer ", "tokB">>

\* C4: chat requests are independent. The body of the request of a submission
\* is exactly {message: text of that submission's user message}, the text as it
\* was at submit time, and two requests differ only in that text.
C4_RequestIndependent ==
    /\ \A k \in DOMAIN requests :
          \E u \in UserMessagesOf(requests[k].sub) :
              requests[k].body = [message |-> messages[u].content]
    /\ \A k1, k2 \in DOMAIN requests :
          /\ requests[k1].authorization = requests[k2].authorization
          /\ requests[k1].url = requests[k2].url
          /\ requests[k1].method = requests[k2].method
          /\ (\A u1 \in UserMessagesOf(requests[k1].sub) :
              \A u2 \in UserMessagesOf(requests[k2].sub) :
                 messages[u1].content = messages[u2].content)
             => requests[k1].body = requests[k2].body

\* The second submission's request was sent, after the input was cleared and
\* with earlier replies in the chat.
C4_Witness ==
    /\ query = <<>>
    /\ \E k \in DOMAIN requests :
          /\ requests[k].sub = 2
          /\ requests[k].body.message = <<" ","b"," ">>
          /\ RepliesOf(1) # {}

IsTradeMessage(m) == m.interactive \in {TradingResponse("buy"), TradingResponse("sell")}
ScriptedTimers == {i \in DOMAIN timers : timers[i].kind \in {"recommender", "trade"}}
ScriptedMessages ==
    {k \in DOMAIN messages :
        messages[k].interactive = "RecommenderResponse" \/ IsTradeMessage(messages[k])}

\* C7: the scripted flow runs in order and only on the user's clicks. Every
\* mock trade message comes after a Recommender Agent message with its
\* buttons, every such recommendation after a screener result with its button,
\* a pending recommendation (trade) step has a displayed screener result
\* (recommendation), and the steps started are as many as the clicks made.
C7_ScriptedFlowInOrder ==
    /\ \A k \in DOMAIN messages :
          IsTradeMessage(messages[k]) =>
              \E j \in 1..(k - 1) :
                  /\ messages[j].interactive = "RecommenderResponse"
                  /\ messages[j].agentName = NameRecommenderAgent
    /\ \A k \in DOMAIN messages :
          messages[k].interactive = "RecommenderResponse" =>
              \E j \in 1..(k - 1) : messages[j].interactive = "ScreenerResponseWithData"
    /\ \A i \in DOMAIN timers :
          /\ timers[i].kind = "recommender" => Displayed("ScreenerResponseWithData")
          /\ timers[i].kind = "trade" => Displayed("RecommenderResponse")
    /\ Cardinality(ScriptedTimers) + Cardinality(ScriptedMessages) = nClicks

\* A mock trade message is in the chat.
C7_Witness == \E k \in DOMAIN messages : IsTradeMessage(messages[k])

AgentOfButton(button) == IF button = "sell" THEN NameSellAgent ELSE NameBuyAgent

\* C8: consenting to sell ('Execute Sell Orders') is followed by a mock sale
\* handled by the Sell agent (its status is updated, the confirmation is a
\* sale), consenting to buy by a mock purchase handled by the Buy agent.
C8_TradeFollowsButton ==
    /\ \A i \in DOMAIN timers :
          timers[i].kind = "trade" => agents[timers[i].via] # "idle"
    /\ \A k \in DOMAIN messages :
          IsTradeMessage(messages[k]) =>
              /\ messages[k].interactive = TradingResponse(messages[k].via)
              /\ messages[k].agentName = AgentOfButton(messages[k].via)
              /\ agents[messages[k].via] # "idle"

\* ------------------------------------------------ the reply of one response
\* The part of processUserQuery that turns the body of an OK response into
\* the appended message and the agent it is attributed to, applied to bodies
\* drawn from a wide set of agent names and structured data.
ToUpperChar(c) ==
    IF \E i \in DOMAIN LowerAlpha : LowerAlpha[i] = c
    THEN UpperAlpha[CHOOSE i \in DOMAIN LowerAlpha : LowerAlpha[i] = c]
    ELSE c

ToUpperCase(s) == [i \in DOMAIN s |-> ToUpperChar(s[i])]

Capitalize(s) == <<ToUpperChar(Head(s))>> \o Tail(s)

\* Pieces of agent names: keywords in lower, upper and mixed case, and text
\* that holds no keyword.
Fragments ==
    { ToUpperCase(KwScreener), Capitalize(KwVisualizer), KwRecommender,
      Capitalize(KwBuy), ToUpperCase(KwSell), Capitalize(KwTicker),
      ToUpperCase(KwFundamentals), KwTechnical, ToUpperCase(KwNews),
      KwTrader, NameMarcus, <<"b","u","-","y">> }

RECURSIVE NamesOf(_)
NamesOf(k) ==
    IF k = 0 THEN { <<>> }
    ELSE LET shorter == NamesOf(k - 1) IN
         shorter \cup { n \o f : n \in shorter, f \in Fragments }

AgentNames == NamesOf(MaxFragments) \cup {UndefinedName}

\* processUserQuery from data to the appended message: the TypeError of a
\* missing agent_name ends in the catch block's message.
ReplyFor(v, data) ==
    IF data.agent_name = UndefinedName
    THEN [agentId |-> Coordinator(v), message |-> errorMessage(1)]
    ELSE [agentId |-> AgentIdFromName(v, data.agent_name),
          message |-> agentMessage(v, data, 1)]

BuildReply ==
    /\ replyAgentId = Null
    /\ replyAgentId' = ReplyFor(version, replyBody).agentId
    /\ replyMessage' = <<ReplyFor(version, replyBody).message>>
    /\ UNCHANGED <<chatVars, timers, authVars, routeVars, replyBody, scriptVars,
                   displayVars>>

ReplyInit ==
    /\ version \in Versions
    /\ replyBody \in [agent_name : AgentNames, message : {ReplyMessage},
                      data : JsonValues, trading_analysis : JsonValues]
    /\ replyAgentId = Null
    /\ replyMessage = <<>>
    /\ query = <<>>
    /\ isTyping = FALSE
    /\ messages = <<welcome(version)>>
    /\ agents = InitialAgents(version)
    /\ timers = <<>>
    /\ calls = <<>>
    /\ requests = <<>>
    /\ nClicks = 0
    /\ token = "tokA"
    /\ localAccessToken = Null
    /\ isAuthenticated = TRUE
    /\ user = Null
    /\ isLoading = FALSE
    /\ error = Null
    /\ StoreIdle
    /\ location = "/playground"
    /\ landingIsLoading = FALSE
    /\ nLoginSubmits = 0
    /\ protectedIsLoading = FALSE
    /\ hasValidAuth = TRUE
    /\ logoutPc = "idle"
    /\ ScriptIdle
    /\ DisplayIdle

ReplyNext == BuildReply

ReplySpec == ReplyInit /\ [][ReplyNext]_vars

\* Whether the response carries structured data the page looks at.
HasStructuredData(v, data) ==
    \/ JsTruthy(data.data)
    \/ v = "analysis" /\ JsTruthy(data.trading_analysis)

\* C5: for every OK response {agent_name, message, optional structured data}
\* the appended agent message has the response's message as content and its
\* agent_name as agentName, and it carries an interactive payload only if the
\* response includes structured data (data, or trading_analysis in the
\* analysis version); without structured data it is a plain text message.
C5_ReplyMirrorsResponse ==
    (replyAgentId # Null /\ replyBody.agent_name # UndefinedName) =>
        LET m == replyMessage[1] IN
        /\ m.type = "agent"
        /\ m.content = replyBody.message
        /\ m.agentName = replyBody.agent_name
        /\ Rendered(m.interactive) => HasStructuredData(version, replyBody)
        /\ ~HasStructuredData(version, replyBody) => m.interactive = Undefined

\* A reply with a payload was built from a response of the analysis version
\* that holds trading_analysis and no data.
C5_Witness ==
    /\ replyAgentId # Null
    /\ replyBody.agent_name # UndefinedName
    /\ Rendered(replyMessage[1].interactive)
    /\ version = "analysis"
    /\ replyBody.data = Undefined

\* The keywords in the order the code tests them, with the id each stands for.
KeywordOrder(v) ==
    IF v = "generative"
    THEN << <<KwScreener, "screener">>, <<KwVisualizer, "visualizer">>,
            <<KwRecommender, "recommender">>, <<KwBuy, "buy">>, <<KwSell, "sell">> >>
    ELSE << <<KwTicker, "ticker">>, <<KwFundamentals, "fundamentals">>,
            <<KwTechnical, "technical">>, <<KwSentiment, "sentiment">>,
            <<KwNews, "news">>, <<KwResearch, "research">>, <<KwTrader, "trader">> >>

\* The keyword occurs in the name at some position, letter case aside.
OccursIgnoringCase(name, kw) ==
    \E i \in 0..(Len(name) - Len(kw)) :
        \A j \in 1..Len(kw) :
            ToLowerChar(name[i + j]) = kw[j] \/ name[i + j] = ToUpperChar(kw[j])

\* C6: getAgentIdFromName gives every agent_name string one id, always the id
\* of an agent of the sidebar list: that of the first keyword, in the order
\* the code tests them, that occurs in the name as a substring whatever the
\* letter case, and the orchestrator (coordinator) when none occurs.
C6_AgentIdFromName ==
    (replyAgentId # Null /\ replyBody.agent_name # UndefinedName) =>
        LET name == replyBody.agent_name
            order == KeywordOrder(version)
            hits == {i \in DOMAIN order : OccursIgnoringCase(name, order[i][1])}
        IN  /\ replyAgentId \in AgentIds(version)
            /\ replyAgentId \in DOMAIN agents
            /\ hits = {} => replyAgentId = Coordinator(version)
            /\ hits # {} =>
                  \E i \in hits :
                      /\ \A j \in hits : i <= j
                      /\ replyAgentId = order[i][2]

\* A name holding two keywords in upper and mixed case was attributed.
C6_Witness ==
    /\ replyAgentId = "screener"
    /\ replyBody.agent_name = Capitalize(KwBuy) \o ToUpperCase(KwScreener)

\* ------------------------------------------------------------- auth store
\* ProtectedRoute's useEffect([isAuthenticated, token]): when one of them
\* changes while the route is mounted, the cleanup clears the pending timer
\* and a new 150 ms timer is set whose checkAuth sees the new values.
ProtectedTimer(auth, tok) ==
    [kind |-> "protected", sub |-> 0, via |-> "none",
     isAuthenticated |-> auth, token |-> tok]

RECURSIVE ClearProtected(_)
ClearProtected(ts) ==
    IF ts = <<>> THEN <<>>
    ELSE IF Head(ts).kind = "protected" THEN ClearProtected(Tail(ts))
    ELSE <<Head(ts)>> \o ClearProtected(Tail(ts))

ProtectedEffect(auth, tok) ==
    IF location = "/playground" /\ (auth # isAuthenticated \/ tok # token)
    THEN Append(ClearProtected(timers), ProtectedTimer(auth, tok))
    ELSE timers

\* The continuation of an await on a settled promise (register after its
\* login returned, handleLogout after logout returned) runs before any other
\* task: nothing else runs while one is queued.
NoContinuation ==
    /\ logoutPc = "idle"
    /\ \A r \in DOMAIN registers : registers[r].pc # "resume"

\* The login and register calls that have started and not returned (the calls
\* of a page that was reloaded are gone with it).
InFlight(cs) == {k \in DOMAIN cs : cs[k].pc \notin {"done", "lost"}}

\* No login and no register call is in flight.
NoCallInFlight == InFlight(logins) = {} /\ InFlight(registers) = {}

\* The register calls in flight when another login, register or logout call
\* is made are no longer alone (a history field).
Share(cs) ==
    [k \in DOMAIN cs |-> IF cs[k].pc \in {"done", "lost"} THEN cs[k]
                         ELSE [cs[k] EXCEPT !.alone = FALSE]]

LoginRequest == [method |-> "POST", url |-> "http://localhost:8000/auth/login/"]
RegisterRequest == [method |-> "POST", url |-> "http://localhost:8000/auth/register/"]

\* What fetch and response.json() reject with (error.message).
FetchError == "Failed to fetch"
JsonError == "Unexpected end of JSON input"

\* login up to its first await: set({isLoading: true, error: null}) and the
\* fetch is sent.  by is the register call that makes this call (0: none);
\* by, stale and body (the response body once read) are history fields read
\* by no operation.
loginCall(by, stale) ==
    /\ isLoading' = TRUE
    /\ error' = Null
    /\ logins' = Append(logins, [pc |-> "fetch", ok |-> FALSE, result |-> "none",
                                 by |-> by, stale |-> stale, body |-> <<>>])
    /\ authRequests' = authRequests \cup {LoginRequest}

\* The login calls made by the application (not by register).
DirectLogins == {k \in DOMAIN logins : logins[k].by = 0}

\* The login and register calls the application has made so far.
CallsMade == Cardinality(DirectLogins) + Len(registers)

\* login is called.
LoginStart ==
    /\ NoContinuation
    /\ CallsMade < MaxLogins
    /\ loginCall(0, FALSE)
    /\ registers' = Share(registers)
    /\ UNCHANGED <<user, token, isAuthenticated, localAccessToken, timers,
                   chatVars, routeVars, pureVars>>
    /\ setItem

\* login returns to the register call that awaits it, if one does.
ReturnToRegister(k) ==
    IF logins[k].by = 0 THEN registers
    ELSE [registers EXCEPT ![logins[k].by].pc = "resume"]

\* A variant of login's catch block that leaves the token in place.
LoginCatch_keepToken(k, message, body) ==
    /\ isLoading' = FALSE
    /\ error' = message
    /\ isAuthenticated' = FALSE
    /\ user' = Null
    /\ timers' = ProtectedEffect(FALSE, token)
    /\ logins' = [logins EXCEPT ![k].pc = "done", ![k].result = "false",
                                ![k].body = body]
    /\ registers' = ReturnToRegister(k)
    /\ UNCHANGED <<token, authRequests>>

\* login: the catch block, and return false.
LoginCatch(k, message, body) ==
    /\ isLoading' = FALSE
    /\ error' = message
    /\ isAuthenticated' = FALSE
    /\ token' = Null
    /\ user' = Null
    /\ timers' = ProtectedEffect(FALSE, Null)
    /\ logins' = [logins EXCEPT ![k].pc = "done", ![k].result = "false",
                                ![k].body = body]
    /\ registers' = ReturnToRegister(k)
    /\ UNCHANGED authRequests

\* login: the fetch settles.
LoginFetchSettle(k, outcome) ==
    /\ NoContinuation
    /\ k \in DOMAIN logins
    /\ logins[k].pc = "fetch"
    /\ IF outcome = "reject"
       THEN LoginCatch(k, FetchError, <<>>)
       ELSE /\ logins' = [logins EXCEPT ![k].pc = "json", ![k].ok = (outcome = "ok")]
            /\ UNCHANGED <<user, token, isAuthenticated, isLoading, error, timers,
                           registers, authRequests>>
    /\ UNCHANGED <<localAccessToken, chatVars, routeVars, pureVars>>
    /\ setItem

\* The bodies the login endpoint answers with: an OK body with an
\* access_token, with a null one or without one, an error body with or without
\* detail.
LoginBodies(ok) ==
    IF ok THEN {[access_token |-> "tokA", detail |-> Undefined],
                [access_token |-> Null, detail |-> Undefined],
                [access_token |-> Undefined, detail |-> Undefined]}
    ELSE {[access_token |-> Undefined, detail |-> "Incorrect email or password"],
          [access_token |-> Undefined, detail |-> Undefined]}

\* login: response.json() resolves.
LoginJsonSettle(k, body) ==
    /\ NoContinuation
    /\ k \in DOMAIN logins
    /\ logins[k].pc = "json"
    /\ IF logins[k].ok
       THEN /\ token' = body.access_token
            /\ isAuthenticated' = TRUE
            /\ isLoading' = FALSE
            /\ error' = Null
            /\ timers' = ProtectedEffect(TRUE, body.access_token)
            /\ logins' = [logins EXCEPT ![k].pc = "done", ![k].result = "true",
                                        ![k].body = <<body>>]
            /\ registers' = ReturnToRegister(k)
            /\ UNCHANGED <<user, authRequests>>
       ELSE LoginCatch(k, Or(body.detail, "Login failed"), <<body>>)
    /\ UNCHANGED <<localAccessToken, chatVars, routeVars, pureVars>>
    /\ setItem

\* login: response.json() rejects.
LoginJsonReject(k) ==
    /\ NoContinuation
    /\ k \in DOMAIN logins
    /\ logins[k].pc = "json"
    /\ LoginCatch(k, JsonError, <<>>)
    /\ UNCHANGED <<localAccessToken, chatVars, routeVars, pureVars>>
    /\ setItem

\* The calls in flight when logout is called are marked (a history field).
MarkStale(cs) ==
    [k \in DOMAIN cs |-> IF cs[k].pc = "done" THEN cs[k]
                         ELSE [cs[k] EXCEPT !.stale = TRUE]]

\* A variant of logout that forgets to clear the token.
logout_keepToken ==
    /\ user' = Null
    /\ isAuthenticated' = FALSE
    /\ error' = Null
    /\ timers' = ProtectedEffect(FALSE, token)
    /\ logins' = MarkStale(logins)
    /\ registers' = Share(MarkStale(registers))
    /\ UNCHANGED <<token, isLoading, localAccessToken, authRequests>>
    /\ setItem

\* logout (the store's action).
logout ==
    /\ user' = Null
    /\ token' = Null
    /\ isAuthenticated' = FALSE
    /\ error' = Null
    /\ timers' = ProtectedEffect(FALSE, Null)
    /\ logins' = MarkStale(logins)
    /\ registers' = Share(MarkStale(registers))
    /\ UNCHANGED <<isLoading, localAccessToken, authRequests>>
    /\ setItem

\* ------------------------------------------------- auth store: register
\* register is called: set({isLoading: true, error: null}) and the fetch is
\* sent.  login is the auto-login call this call makes (0: none yet); stale,
\* body (the response body once read) and alone (no other login, register or
\* logout call was made or in flight since this call started) are history
\* fields.
RegisterStart ==
    /\ NoContinuation
    /\ CallsMade < MaxLogins
    /\ isLoading' = TRUE
    /\ error' = Null
    /\ registers' = Append(Share(registers),
                           [pc |-> "fetch", ok |-> FALSE, result |-> "none",
                            login |-> 0, stale |-> FALSE, body |-> <<>>,
                            alone |-> NoCallInFlight])
    /\ authRequests' = authRequests \cup {RegisterRequest}
    /\ UNCHANGED <<user, token, isAuthenticated, localAccessToken, logins,
                   timers, chatVars, routeVars, pureVars>>
    /\ setItem

\* A variant of register's catch block that also drops the session.
RegisterCatch_clearsSession(r, message, body) ==
    /\ isLoading' = FALSE
    /\ error' = message
    /\ user' = Null
    /\ token' = Null
    /\ isAuthenticated' = FALSE
    /\ registers' = [registers EXCEPT ![r].pc = "done", ![r].result = "false",
                                      ![r].body = body]
    /\ UNCHANGED <<logins, authRequests, timers>>

\* A variant of register's catch block that leaves isLoading as it is.
RegisterCatch_staysLoading(r, message, body) ==
    /\ error' = message
    /\ registers' = [registers EXCEPT ![r].pc = "done", ![r].result = "false",
                                      ![r].body = body]
    /\ UNCHANGED <<user, token, isAuthenticated, isLoading, logins, authRequests,
                   timers>>

\* register: the catch block, and return false.
RegisterCatch(r, message, body) ==
    /\ isLoading' = FALSE
    /\ error' = message
    /\ registers' = [registers EXCEPT ![r].pc = "done", ![r].result = "false",
                                      ![r].body = body]
    /\ UNCHANGED <<user, token, isAuthenticated, logins, authRequests, timers>>

\* register: the fetch settles.
RegisterFetchSettle(r, outcome) ==
    /\ NoContinuation
    /\ r \in DOMAIN registers
    /\ registers[r].pc = "fetch"
    /\ IF outcome = "reject"
       THEN RegisterCatch(r, FetchError, <<>>)
       ELSE /\ registers' = [registers EXCEPT ![r].pc = "json",
                                              ![r].ok = (outcome = "ok")]
            /\ UNCHANGED <<user, token, isAuthenticated, isLoading, error,
                           logins, authRequests, timers>>
    /\ UNCHANGED <<localAccessToken, chatVars, routeVars, pureVars>>
    /\ setItem

\* The bodies the register endpoint answers with: the registered user, or an
\* error body with or without detail.
RegisterBodies(ok) ==
    IF ok THEN {[user |-> "user2", detail |-> Undefined]}
    ELSE {[user |-> Undefined, detail |-> "Email already registered"],
          [user |-> Undefined, detail |-> Undefined]}

\* A variant of register's continuation that does not store the registered
\* user before it calls login.
RegisterJsonSettle_userNotSet(r, body) ==
    /\ NoContinuation
    /\ r \in DOMAIN registers
    /\ registers[r].pc = "json"
    /\ IF registers[r].ok
       THEN /\ loginCall(r, registers[r].stale)
            /\ registers' = [registers EXCEPT ![r].pc = "login",
                                              ![r].login = Len(logins) + 1,
                                              ![r].body = <<body>>]
            /\ UNCHANGED <<user, token, isAuthenticated, timers>>
       ELSE RegisterCatch(r, Or(body.detail, "Registration failed"), <<body>>)
    /\ UNCHANGED <<localAccessToken, chatVars, routeVars, pureVars>>
    /\ setItem

\* register: response.json() resolves.  After an OK response the user is
\* set and login is called; the call runs to login's first await.
RegisterJsonSettle(r, body) ==
    /\ NoContinuation
    /\ r \in DOMAIN registers
    /\ registers[r].pc = "json"
    /\ IF registers[r].ok
       THEN /\ user' = body.user
            /\ loginCall(r, registers[r].stale)
            /\ registers' = [registers EXCEPT ![r].pc = "login",
                                              ![r].login = Len(logins) + 1,
                                              ![r].body = <<body>>]
            /\ UNCHANGED <<token, isAuthenticated, timers>>
       ELSE RegisterCatch(r, Or(body.detail, "Registration failed"), <<body>>)
    /\ UNCHANGED <<localAccessToken, chatVars, routeVars, pureVars>>
    /\ setItem

\* register: response.json() rejects.
RegisterJsonReject(r) ==
    /\ NoContinuation
    /\ r \in DOMAIN registers
    /\ registers[r].pc = "json"
    /\ RegisterCatch(r, JsonError, <<>>)
    /\ UNCHANGED <<localAccessToken, chatVars, routeVars, pureVars>>
    /\ setItem

\* A variant of register's continuation that returns false after a failed
\* auto-login without throwing, so that login's error text stays.
RegisterResume_keepsLoginError(r) ==
    /\ logoutPc = "idle"
    /\ r \in DOMAIN registers
    /\ registers[r].pc = "resume"
    /\ isLoading' = FALSE
    /\ IF logins[registers[r].login].result = "true"
       THEN /\ error' = Null
            /\ registers' = [registers EXCEPT ![r].pc = "done", ![r].result = "true"]
       ELSE /\ error' = error
            /\ registers' = [registers EXCEPT ![r].pc = "done", ![r].result = "false"]
    /\ UNCHANGED <<user, token, isAuthenticated, logins, authRequests, timers>>
    /\ UNCHANGED <<localAccessToken, chatVars, routeVars, pureVars>>
    /\ setItem

\* register after await get().login(...): loginSuccess decides.
RegisterResume(r) ==
    /\ logoutPc = "idle"
    /\ r \in DOMAIN registers
    /\ registers[r].pc = "resume"
    /\ IF logins[registers[r].login].result = "true"
       THEN /\ isLoading' = FALSE
            /\ error' = Null
            /\ registers' = [registers EXCEPT ![r].pc = "done", ![r].result = "true"]
            /\ UNCHANGED <<user, token, isAuthenticated, logins, authRequests,
                           timers>>
       ELSE RegisterCatch(r, "Registration successful but auto-login failed",
                          registers[r].body)
    /\ UNCHANGED <<localAccessToken, chatVars, routeVars, pureVars>>
    /\ setItem

\* clearError
clearError ==
    /\ NoContinuation
    /\ error' = Null
    /\ UNCHANGED <<user, token, isAuthenticated, isLoading, localAccessToken,
                   logins, registers, authRequests, timers, chatVars, routeVars,
                   pureVars>>
    /\ setItem

\* logout is called (by any component that holds the store).
CallLogout ==
    /\ NoContinuation
    /\ logout
    /\ UNCHANGED <<chatVars, routeVars, pureVars>>

\* The calls in flight when the page is reloaded are gone with it.
Lose(cs) ==
    [k \in DOMAIN cs |-> IF cs[k].pc = "done" THEN cs[k]
                         ELSE [cs[k] EXCEPT !.pc = "lost"]]

\* The page is reloaded: the store is created again with its initial state
\* and persist rehydrates it from localStorage (and writes it back).
Rehydrate ==
    /\ NoContinuation
    /\ LET state == IF storage = <<>> THEN InitialState
                    ELSE Merge(InitialState, storage[1])
       IN  /\ user' = state.user
           /\ token' = state.token
           /\ isAuthenticated' = state.isAuthenticated
           /\ isLoading' = state.isLoading
           /\ error' = state.error
    /\ logins' = Lose(logins)
    /\ registers' = Lose(registers)
    /\ UNCHANGED <<localAccessToken, authRequests, timers, chatVars, routeVars,
                   pureVars>>
    /\ setItem

\* --------------------------------------------- Landing and ProtectedRoute
\* ProtectedRoute returns its children.
ChildrenRendered ==
    location = "/playground" /\ ~protectedIsLoading /\ hasValidAuth

\* Landing: handleLogin; the submit button is disabled while isLoading.
handleLogin ==
    /\ logoutPc = "idle"
    /\ location = "/"
    /\ ~landingIsLoading
    /\ nLoginSubmits < MaxLogins
    /\ nLoginSubmits' = nLoginSubmits + 1
    /\ landingIsLoading' = TRUE
    /\ timers' = Append(timers, [kind |-> "landing", sub |-> 0, via |-> "none"])
    /\ UNCHANGED <<location, protectedIsLoading, hasValidAuth, logoutPc,
                   authVars, chatVars, pureVars>>

\* Landing: the 1500 ms timer of handleLogin fires: navigate("/playground").
LandingTimer(i) ==
    /\ logoutPc = "idle"
    /\ CanFire(i)
    /\ timers[i].kind = "landing"
    /\ IF location = "/"
       THEN \* Landing is unmounted and ProtectedRoute is mounted: its state
            \* starts as useState gives it and its effect sets the timer.
            /\ location' = "/playground"
            /\ protectedIsLoading' = TRUE
            /\ hasValidAuth' = FALSE
            /\ timers' = Append(RemoveAt(timers, i),
                                ProtectedTimer(isAuthenticated, token))
       ELSE /\ timers' = RemoveAt(timers, i)
            /\ UNCHANGED <<location, protectedIsLoading, hasValidAuth>>
    /\ UNCHANGED <<landingIsLoading, nLoginSubmits, logoutPc, authVars, chatVars,
                   pureVars>>

\* ProtectedRoute: the 150 ms timer fires: checkAuth, and the render after it,
\* which is <Navigate to="/" replace /> when the check failed.
checkAuth(i) ==
    /\ logoutPc = "idle"
    /\ CanFire(i)
    /\ timers[i].kind = "protected"
    /\ LET storedToken == localAccessToken
           authValid == timers[i].isAuthenticated
                        /\ Truthy(Or(timers[i].token, storedToken))
       IN  IF authValid
           THEN /\ hasValidAuth' = TRUE
                /\ protectedIsLoading' = FALSE
                /\ timers' = RemoveAt(timers, i)
                /\ UNCHANGED <<location, landingIsLoading>>
           ELSE \* ProtectedRoute is unmounted (the cleanup clears its timer)
                \* and a new Landing is mounted.
                /\ hasValidAuth' = FALSE
                /\ protectedIsLoading' = FALSE
                /\ location' = "/"
                /\ landingIsLoading' = FALSE
                /\ timers' = ClearProtected(timers)
    /\ UNCHANGED <<nLoginSubmits, logoutPc, authVars, chatVars, pureVars>>

\* Playground: handleLogout up to its await: logout().
handleLogout ==
    /\ NoContinuation
    /\ ChildrenRendered
    /\ logout
    /\ logoutPc' = "navigate"
    /\ UNCHANGED <<location, landingIsLoading, nLoginSubmits, protectedIsLoading,
                   hasValidAuth, chatVars, pureVars>>

\* Playground: handleLogout after its await: navigate("/").
handleLogoutNavigate ==
    /\ logoutPc = "navigate"
    /\ logoutPc' = "idle"
    /\ location' = "/"
    /\ landingIsLoading' = FALSE
    /\ timers' = ClearProtected(timers)
    /\ UNCHANGED <<nLoginSubmits, protectedIsLoading, hasValidAuth, authVars,
                   chatVars, pureVars>>

\* The app as it starts: at the Landing page or, by its URL, at /playground,
\* with the store as created or as rehydrated from a persisted session.
AppInit ==
    /\ \E session \in {"none", "persisted"} :
          /\ token = IF session = "none" THEN Null ELSE "tokA"
          /\ isAuthenticated = (session # "none")
          /\ user = IF session = "none" THEN Null ELSE "user1"
    /\ isLoading = FALSE
    /\ error = Null
    /\ localAccessToken \in {Null, "tokB"}
    /\ StoreIdle
    /\ location \in {"/", "/playground"}
    /\ landingIsLoading = FALSE
    /\ nLoginSubmits = 0
    /\ protectedIsLoading = TRUE
    /\ hasValidAuth = FALSE
    /\ logoutPc = "idle"
    /\ timers = IF location = "/playground"
                THEN <<ProtectedTimer(isAuthenticated, token)>>
                ELSE <<>>
    /\ version = "generative"
    /\ query = <<>>
    /\ isTyping = FALSE
    /\ messages = <<welcome(version)>>
    /\ agents = InitialAgents(version)
    /\ calls = <<>>
    /\ requests = <<>>
    /\ nClicks = 0
    /\ replyBody = Body(NameMarcus, Undefined, Undefined)
    /\ replyAgentId = Null
    /\ replyMessage = <<>>
    /\ ScriptIdle
    /\ DisplayIdle

AppNext ==
    \/ LoginStart
    \/ \E k \in DOMAIN logins : \E o \in {"reject", "notok", "ok"} : LoginFetchSettle(k, o)
    \/ \E k \in DOMAIN logins : \E b \in LoginBodies(logins[k].ok) : LoginJsonSettle(k, b)
    \/ \E k \in DOMAIN logins : LoginJsonReject(k)
    \/ handleLogin
    \/ \E i \in DOMAIN timers : LandingTimer(i)
    \/ \E i \in DOMAIN timers : checkAuth(i)
    \/ handleLogout
    \/ handleLogoutNavigate

AppSpec == AppInit /\ [][AppNext]_vars

\* C9: ProtectedRoute renders its children only for an authenticated session:
\* whenever the children are rendered the store has isAuthenticated = true and
\* a token is present (the store's or localStorage 'access_token'), also right
\* after the store's state changed, such as a logout while the route is mounted.
C9_ChildrenOnlyWhenAuthenticated ==
    ChildrenRendered =>
        isAuthenticated /\ (Truthy(token) \/ Truthy(localAccessToken))

\* C10: the Landing login form navigates to /playground only after a login
\* succeeded: when its timer fires and navigates, the store is authenticated
\* and holds a token.
C10_NavigateOnlyAfterLogin ==
    [][(\E i \in DOMAIN timers : LandingTimer(i)) =>
          (isAuthenticated /\ Truthy(token)
           /\ \E k \in DOMAIN logins : logins[k].result = "true")]_vars

\* ------------------------------------------------------ the auth store alone
\* The store as created in a fresh browser, used by components that call
\* login, register, logout and clearError in any order, with page reloads.
StoreInit ==
    /\ user = InitialState.user
    /\ token = InitialState.token
    /\ isAuthenticated = InitialState.isAuthenticated
    /\ isLoading = InitialState.isLoading
    /\ error = InitialState.error
    /\ localAccessToken = Null
    /\ StoreIdle
    /\ location = "/"
    /\ landingIsLoading = FALSE
    /\ nLoginSubmits = 0
    /\ protectedIsLoading = TRUE
    /\ hasValidAuth = FALSE
    /\ logoutPc = "idle"
    /\ timers = <<>>
    /\ version = "generative"
    /\ query = <<>>
    /\ isTyping = FALSE
    /\ messages = <<welcome(version)>>
    /\ agents = InitialAgents(version)
    /\ calls = <<>>
    /\ requests = <<>>
    /\ nClicks = 0
    /\ replyBody = Body(NameMarcus, Undefined, Undefined)
    /\ replyAgentId = Null
    /\ replyMessage = <<>>
    /\ ScriptIdle
    /\ DisplayIdle

StoreNext ==
    \/ LoginStart
    \/ \E k \in DOMAIN logins : \E o \in {"reject", "notok", "ok"} : LoginFetchSettle(k, o)
    \/ \E k \in DOMAIN logins : \E b \in LoginBodies(logins[k].ok) : LoginJsonSettle(k, b)
    \/ \E k \in DOMAIN logins : LoginJsonReject(k)
    \/ RegisterStart
    \/ \E r \in DOMAIN registers : \E o \in {"reject", "notok", "ok"} : RegisterFetchSettle(r, o)
    \/ \E r \in DOMAIN registers : \E b \in RegisterBodies(registers[r].ok) : RegisterJsonSettle(r, b)
    \/ \E r \in DOMAIN registers : RegisterJsonReject(r)
    \/ \E r \in DOMAIN registers : RegisterResume(r)
    \/ CallLogout
    \/ clearError
    \/ Rehydrate

StoreSpec == StoreInit /\ [][StoreNext]_vars


\* The step in which login call k returns.
LoginReturns(k) == logins[k].pc \in {"fetch", "json"} /\ logins'[k].pc = "done"

\* login call k fails in this step by a network error or a non-OK response.
LoginFails(k) ==
    /\ LoginReturns(k)
    /\ logins[k].pc = "fetch" \/ ~logins[k].ok

\* The store holds no session and is not loading.
NoSession(u, t, a, l) == u = Null /\ t = Null /\ ~a /\ ~l

\* The detail of the error body login call k has read, if it read one.
DetailOf(body) == IF body = <<>> THEN Undefined ELSE body[1].detail

RegistrationFails(r) ==
    /\ registers[r].pc \in {"fetch", "json"}
    /\ registers'[r].pc = "done"
    /\ registers[r].pc = "fetch" \/ ~registers[r].ok

\* The step leaves the session alone and calls no login.
SessionUntouched ==
    /\ user' = user /\ token' = token /\ isAuthenticated' = isAuthenticated
    /\ logins' = logins
    /\ authRequests' = authRequests

PersistedKeys == {"token", "user", "isAuthenticated"}

\* C13 as stated: the persisted snapshot of the auth store contains exactly
\* token, user and isAuthenticated, and persisting then rehydrating restores
\* those three values unchanged, while isLoading and error are never
\* persisted and come back as false and null.
C13_SessionResumedAsStated ==
    [][Rehydrate =>
          /\ DOMAIN storage[1] = PersistedKeys
          /\ token' = token /\ user' = user /\ isAuthenticated' = isAuthenticated
          /\ ~isLoading' /\ error' = Null]_vars

\* C13 (amended): the persisted snapshot of the auth store contains user and
\* isAuthenticated, token unless it is undefined (login stored the
\* access_token of an OK response that had none) and nothing else;
\* persisting then rehydrating restores user and isAuthenticated unchanged
\* and token unchanged, except that an undefined token comes back as null;
\* isLoading and error are never persisted and come back as false and null.
C13_SessionResumed ==
    [][Rehydrate =>
          /\ DOMAIN storage[1] \subseteq PersistedKeys
          /\ {"user", "isAuthenticated"} \subseteq DOMAIN storage[1]
          /\ "token" \in DOMAIN storage[1] <=> token # Undefined
          /\ token' = (IF token = Undefined THEN Null ELSE token)
          /\ user' = user /\ isAuthenticated' = isAuthenticated
          /\ ~isLoading' /\ error' = Null]_vars

\* The page was reloaded while a login was in flight, and the session of a
\* registered and logged-in user is back with isLoading false.
C13_Witness ==
    /\ \E k \in DOMAIN logins : logins[k].pc = "lost"
    /\ isAuthenticated
    /\ token = "tokA"
    /\ user = "user2"
    /\ ~isLoading

\* C14: logging out ends the session on the server as well as locally: when
\* handleLogout has run (the store's logout, then the navigation), the user,
\* token and isAuthenticated of the store are cleared and a request to
\* POST /auth/logout has been sent.
C14_LogoutReachesServer ==
    [][handleLogoutNavigate =>
          /\ user' = Null /\ token' = Null /\ ~isAuthenticated'
          /\ \E q \in authRequests' :
                q.method = "POST" /\ q.url = "http://localhost:8000/auth/logout"]_vars

\* ------------------------------------------------------ the ADK start scripts
\* Command-line words, as sequences of characters.
OptPort == <<"-","-","p","o","r","t">>
Port8000 == <<"8","0","0","0">>
Port8001 == <<"8","0","0","1">>
WordAgent == <<"a","g","e","n","t">>
\* adk web
AdkWeb == << <<"a","d","k">>, <<"w","e","b">> >>
\* --adk-dir .adk_data
AdkDirOption ==
    << <<"-","-","a","d","k","-","d","i","r">>, <<".","a","d","k","_","d","a","t","a">> >>

\* The arguments a caller can pass.
ArgWords == {OptPort, Port8000, Port8001, OptPort \o <<"=">> \o Port8000, WordAgent}

RECURSIVE ArgLists(_)
ArgLists(n) ==
    IF n = 0 THEN { <<>> }
    ELSE LET shorter == ArgLists(n - 1) IN
         shorter \cup { Append(a, w) : a \in shorter, w \in ArgWords }

\* "$*": the arguments joined by spaces.
RECURSIVE JoinArgs(_)
JoinArgs(args) ==
    IF args = <<>> THEN <<>>
    ELSE IF Len(args) = 1 THEN args[1]
    ELSE args[1] \o <<" ">> \o JoinArgs(Tail(args))

\* start_adk.sh: its arguments are not used.
start_adk(args) ==
    AdkWeb \o <<WordAgent, OptPort, Port8001>> \o AdkDirOption

\* The ADK web wrapper script: [[ "$*" == *"--port"* ]] decides.
adk_web_wrapper(args) ==
    IF Includes(JoinArgs(args), OptPort)
    THEN AdkWeb \o args
    ELSE AdkWeb \o <<OptPort, Port8001>> \o args

Scripts == {"start_adk.sh", "adk web wrapper"}

RunOf(name, args) ==
    IF name = "start_adk.sh" THEN start_adk(args) ELSE adk_web_wrapper(args)

\* adk web's --port option: '--port N' or '--port=N', the last one given
\* counts; without one the port is the default, 8000.  <<>> stands for an
\* option without a value.
RECURSIVE PortOf(_, _)
PortOf(words, port) ==
    IF words = <<>> THEN port
    ELSE IF Head(words) = OptPort
         THEN IF Len(words) >= 2 THEN PortOf(Tail(Tail(words)), words[2])
              ELSE <<>>
    ELSE IF Len(Head(words)) > Len(OptPort) + 1
            /\ SubSeq(Head(words), 1, Len(OptPort) + 1) = OptPort \o <<"=">>
         THEN PortOf(Tail(words),
                     SubSeq(Head(words), Len(OptPort) + 2, Len(Head(words))))
    ELSE PortOf(Tail(words), port)

\* The port the executed command listens on; <<>> when the value of --port
\* is missing or not a number (adk exits with a usage error).
ListenPort(cmd) ==
    LET port == PortOf(cmd, Port8000) IN
    IF port \in {Port8000, Port8001} THEN port ELSE <<>>

\* The script is run.
RunScript ==
    /\ command = <<>>
    /\ command' = RunOf(script, scriptArgs)
    /\ UNCHANGED <<script, scriptArgs, chatVars, timers, authVars, routeVars,
                   replyVars, displayVars>>

ScriptInit ==
    /\ script \in Scripts
    /\ scriptArgs \in ArgLists(MaxArgs)
    /\ command = <<>>
    /\ user = InitialState.user
    /\ token = InitialState.token
    /\ isAuthenticated = InitialState.isAuthenticated
    /\ isLoading = InitialState.isLoading
    /\ error = InitialState.error
    /\ localAccessToken = Null
    /\ StoreIdle
    /\ location = "/"
    /\ landingIsLoading = FALSE
    /\ nLoginSubmits = 0
    /\ protectedIsLoading = TRUE
    /\ hasValidAuth = FALSE
    /\ logoutPc = "idle"
    /\ timers = <<>>
    /\ version = "generative"
    /\ query = <<>>
    /\ isTyping = FALSE
    /\ messages = <<welcome(version)>>
    /\ agents = InitialAgents(version)
    /\ calls = <<>>
    /\ requests = <<>>
    /\ nClicks = 0
    /\ replyBody = Body(NameMarcus, Undefined, Undefined)
    /\ replyAgentId = Null
    /\ replyMessage = <<>>
    /\ DisplayIdle

ScriptNext == RunScript

ScriptSpec == ScriptInit /\ [][ScriptNext]_vars

\* C15: the ADK wrapper script always runs 'adk web' on port 8001: for every
\* argument list passed to it, the command it executes is an adk web command
\* that listens on port 8001, never on FastAPI's port 8000.
C15_AlwaysPort8001 ==
    command # <<>> =>
        /\ SubSeq(command, 1, 2) = AdkWeb
        /\ ListenPort(command) = Port8001

\* ---------------------------------------------------- TradingAnalysisDisplay
ActionBuy == <<"B","U","Y">>
ActionSell == <<"S","E","L","L">>
ActionHold == <<"H","O","L","D">>

\* getActionColor: switch (action.toUpperCase())
getActionColor(action) ==
    LET a == ToUpperCase(action) IN
    IF a = ActionBuy THEN "text-green-600 bg-green-50 border-green-200"
    ELSE IF a = ActionSell THEN "text-red-600 bg-red-50 border-red-200"
    ELSE "text-yellow-600 bg-yellow-50 border-yellow-200"

\* getActionIcon: switch (action.toUpperCase())
getActionIcon(action) ==
    LET a == ToUpperCase(action) IN
    IF a = ActionBuy THEN "TrendingUp"
    ELSE IF a = ActionSell THEN "TrendingDown"
    ELSE "Minus"

\* The Trading Recommendation card: the badge, and the allocation under
\* {data.trading_decision.action !== 'HOLD' && ...} (<<>>: not rendered).
TradingRecommendation(d) ==
    [color |-> getActionColor(d.action),
     icon |-> getActionIcon(d.action),
     label |-> d.action,
     allocation |-> IF d.action # ActionHold THEN <<d.position_size>> ELSE <<>>]

\* Every way of writing a word in upper and lower case letters.
CaseVariants(word) ==
    {w \in [DOMAIN word -> {word[i] : i \in DOMAIN word}
                           \cup {ToLowerChar(word[i]) : i \in DOMAIN word}] :
        \A i \in DOMAIN word : ToUpperChar(w[i]) = word[i]}

\* The actions a trading decision can carry: the three signals in any letter
\* case, and another word.
DecisionActions ==
    CaseVariants(ActionBuy) \cup CaseVariants(ActionSell)
    \cup CaseVariants(ActionHold) \cup { <<"W","A","I","T">> }

PositionSizes == {0, 25}

\* The component renders the decision it is given.
RenderDecision ==
    /\ display = <<>>
    /\ display' = <<TradingRecommendation(decision)>>
    /\ UNCHANGED <<decision, chatVars, timers, authVars, routeVars, replyVars,
                   scriptVars>>

DisplayInit ==
    /\ decision \in [action : DecisionActions, position_size : PositionSizes]
    /\ display = <<>>
    /\ user = InitialState.user
    /\ token = InitialState.token
    /\ isAuthenticated = InitialState.isAuthenticated
    /\ isLoading = InitialState.isLoading
    /\ error = InitialState.error
    /\ localAccessToken = Null
    /\ StoreIdle
    /\ location = "/playground"
    /\ landingIsLoading = FALSE
    /\ nLoginSubmits = 0
    /\ protectedIsLoading = FALSE
    /\ hasValidAuth = TRUE
    /\ logoutPc = "idle"
    /\ timers = <<>>
    /\ version = "analysis"
    /\ query = <<>>
    /\ isTyping = FALSE
    /\ messages = <<welcome(version)>>
    /\ agents = InitialAgents(version)
    /\ calls = <<>>
    /\ requests = <<>>
    /\ nClicks = 0
    /\ replyBody = Body(NameMarcus, Undefined, Undefined)
    /\ replyAgentId = Null
    /\ replyMessage = <<>>
    /\ ScriptIdle

DisplayNext == RenderDecision

DisplaySpec == DisplayInit /\ [][DisplayNext]_vars

\* The signal a rendered badge stands for, by its colour.
SignalOf(color) ==
    IF color = getActionColor(ActionBuy) THEN ActionBuy
    ELSE IF color = getActionColor(ActionSell) THEN ActionSell
    ELSE ActionHold

\* C16: TradingAnalysisDisplay presents every trading decision as exactly one
\* of the signals BUY, SELL, HOLD, consistently: colour and icon classify the
\* action whatever its letter case (anything but BUY or SELL is HOLD), they
\* agree with each other, and the position-size allocation is shown exactly
\* when the action is classified as BUY or SELL and hidden exactly when it is
\* classified as HOLD.
C16_OneSignalConsistently ==
    display # <<>> =>
        LET shown == display[1]
            signal == SignalOf(shown.color)
            upper == ToUpperCase(decision.action)
        IN  /\ signal = (IF upper \in {ActionBuy, ActionSell} THEN upper ELSE ActionHold)
            /\ shown.icon = getActionIcon(signal)
            /\ (shown.allocation # <<>>) <=> (signal \in {ActionBuy, ActionSell})
            /\ (shown.allocation = <<>>) <=> (signal = ActionHold)

\* Every OK login response read so far carried a non-empty access_token.
TokensReceived ==
    \A k \in DOMAIN logins :
        logins[k].result = "true" => Truthy(logins[k].body[1].access_token)

\* C17: starting from the initial state and as long as every OK login response
\* carried a non-empty access_token, in every state reached by any
\* interleaving of login, register, logout and clearError calls (and their
\* responses), isAuthenticated is true if and only if token is non-null.
C17_AuthenticatedIffToken ==
    TokensReceived => (isAuthenticated <=> token # Null)

\* A register call returned true after its auto-login, with a direct login
\* made as well: the store is authenticated and holds the token.
C17_Witness ==
    /\ TokensReceived
    /\ \E r \in DOMAIN registers : registers[r].result = "true"
    /\ DirectLogins # {}
    /\ isAuthenticated
    /\ token = "tokA"

\* C18: logout is final with respect to earlier logins: once logout has been
\* called the store stays unauthenticated (isAuthenticated = false, token =
\* null) until a login started after that logout succeeds; the response of a
\* login or register that was in flight when logout was called (stale) does
\* not authenticate the store.
C18_LogoutIsFinal ==
    [][/\ (~isAuthenticated /\ isAuthenticated') =>
              \E k \in DOMAIN logins : LoginReturns(k) /\ ~logins[k].stale
       /\ (token = Null /\ token' # Null) =>
              \E k \in DOMAIN logins : LoginReturns(k) /\ ~logins[k].stale]_vars

\* ------------------------------------------- claims on the chat, continued
PendingCalls == {n \in DOMAIN calls : calls[n].pc # "done"}

\* C19: at most one chat request is pending at any time: from an accepted
\* submission until its reply or error message is appended, isTyping stays
\* true (so handleSubmit accepts no further submission), whatever else the
\* user does in the meantime, clicks on buttons of earlier interactive
\* messages included.
C19_OnePendingRequest ==
    /\ Cardinality(PendingCalls) <= 1
    /\ PendingCalls # {} => isTyping

C20_Shape ==
    /\ messages[1] = welcome(version)
    /\ \A k \in 2..Len(messages) :
          /\ messages[k].type = (IF k % 2 = 0 THEN "user" ELSE "agent")
          /\ messages[k].type = "user" => Trim(messages[k].content) # <<>>
    /\ ~isTyping => messages[Len(messages)].type = "agent"
    /\ Cardinality({k \in DOMAIN messages : messages[k].type = "user"}) = Len(calls)

C20_AppendOnly ==
    /\ Len(messages') \in {Len(messages), Len(messages) + 1}
    /\ SubSeq(messages', 1, Len(messages)) = messages

\* C20: chat history shape in the analysis Playground: messages are only ever
\* appended, the welcome message is always first, after it the history
\* strictly alternates user message, agent message, whenever isTyping is
\* false the last message is an agent message, and only submissions of a
\* non-blank query made while isTyping is false have added a user message.
C20_HistoryShape ==
    /\ [](version = "analysis" => C20_Shape)
    /\ [][version = "analysis" => C20_AppendOnly]_vars

\* Two exchanges are complete in the analysis Playground, the second one
\* answered by the System error message.
C20_Witness ==
    /\ version = "analysis"
    /\ Len(messages) = 5
    /\ messages[5].agentName = NameSystem
    /\ ~isTyping

\* The step in which register call r returns.
RegisterReturns(r) ==
    /\ registers[r].pc \in {"fetch", "json", "resume"}
    /\ registers'[r].pc = "done"

\* C21: the auth store's isLoading flag does not get stuck: every login or
\* register call that returns leaves isLoading = false, and in every reachable
\* state in which no login or register call is in flight isLoading is false,
\* under any interleaving of calls, logouts, clearErrors and page reloads.
C21_LoadingNotStuck ==
    /\ [](NoCallInFlight => ~isLoading)
    /\ [][/\ \A k \in DOMAIN logins : LoginReturns(k) => ~isLoading'
          /\ \A r \in DOMAIN registers : RegisterReturns(r) => ~isLoading']_vars

\* A login call and a register call have both returned, the register call
\* with its registration rejected, and the store is not loading.
C21_Witness ==
    /\ NoCallInFlight
    /\ Len(logins) = 1 /\ Len(registers) = 1
    /\ logins[1].by = 0 /\ logins[1].pc = "done"
    /\ registers[1].result = "false" /\ registers[1].login = 0
    /\ ~isLoading


\* The registration request of register call r succeeded (an OK response
\* whose body was read) and the automatic login it then made returned true.
BothSucceeded(r) ==
    /\ registers[r].ok
    /\ registers[r].body # <<>>
    /\ registers[r].login # 0
    /\ logins[registers[r].login].result = "true"

\* The access_token of the response the auto-login of register call r read.
TokenOf(r) == logins[registers[r].login].body[1].access_token

\* register call r returns true in this step, and no other login, register or
\* logout call ran between its start and its return.
ReturnsTrueAlone(r) ==
    /\ RegisterReturns(r)
    /\ registers'[r].result = "true"
    /\ registers[r].alone

\* C22 as stated: register returns true exactly when both the registration
\* request and the automatic login that follows it succeed; when it returns
\* true (and no other store operation ran concurrently) the store has
\* isAuthenticated = true, a non-null token, user equal to the registration
\* response, error = null and isLoading = false.
C22_RegisterSucceedsAsStated ==
    [][\A r \in DOMAIN registers :
          /\ RegisterReturns(r) =>
                (registers'[r].result = "true" <=> BothSucceeded(r))
          /\ ReturnsTrueAlone(r) =>
                /\ isAuthenticated'
                /\ token' # Null
                /\ user' = registers[r].body[1].user
                /\ error' = Null
                /\ ~isLoading']_vars

\* C22 (amended): register returns true exactly when both the registration
\* request and the automatic login that follows it succeed; when it returns
\* true (and no other login, register or logout call ran concurrently) the
\* store has isAuthenticated = true, token equal to the access_token of the
\* login response as it was read (a non-null token when the response carries
\* one, null or undefined when it carries null or none), user equal to the
\* registration response, error = null and isLoading = false.
C22_RegisterSucceeds ==
    [][\A r \in DOMAIN registers :
          /\ RegisterReturns(r) =>
                (registers'[r].result = "true" <=> BothSucceeded(r))
          /\ ReturnsTrueAlone(r) =>
                /\ isAuthenticated'
                /\ token' = TokenOf(r)
                /\ Truthy(TokenOf(r)) => token' # Null
                /\ user' = registers[r].body[1].user
                /\ error' = Null
                /\ ~isLoading']_vars

\* A register call made alone has returned true: the store holds the
\* registered user and the token of the auto-login.
C22_Witness ==
    /\ Len(registers) = 1 /\ Len(logins) = 1
    /\ registers[1].result = "true"
    /\ registers[1].alone
    /\ isAuthenticated
    /\ token = "tokA"
    /\ user = "user2"
    /\ error = Null
    /\ ~isLoading


\* The error texts login's catch block stores.
LoginErrors ==
    {FetchError, JsonError, "Login failed"}
    \cup {b.detail : b \in {c \in LoginBodies(FALSE) : Truthy(c.detail)}}

AutoLoginFailed == "Registration successful but auto-login failed"

\* Register call r returns in this step after its registration request
\* succeeded and its automatic login returned false.
AutoLoginFails(r) ==
    /\ registers[r].pc = "resume"
    /\ registers'[r].pc = "done"
    /\ logins[registers[r].login].result = "false"

\* C23: when the registration request succeeds but the automatic login fails,
\* register returns false and the store ends with error = 'Registration
\* successful but auto-login failed', which replaces the error text login had
\* stored, isLoading = false, isAuthenticated = false, token = null and user =
\* null: the registered user stored before the login attempt is discarded.
C23_AutoLoginFailure ==
    [][\A r \in DOMAIN registers :
          AutoLoginFails(r) =>
              /\ registers'[r].result = "false"
              /\ registers[r].ok /\ registers[r].body # <<>>
              /\ error \in LoginErrors
              /\ error' = AutoLoginFailed
              /\ NoSession(user', token', isAuthenticated', isLoading')]_vars

\* A register call whose registration was accepted has returned false after
\* its auto-login was refused: the registered user is gone from the store.
C23_Witness ==
    /\ \E r \in DOMAIN registers :
          /\ registers[r].result = "false"
          /\ registers[r].body # <<>> /\ registers[r].body[1].user = "user2"
          /\ registers[r].login # 0
          /\ logins[registers[r].login].body # <<>>
    /\ error = AutoLoginFailed
    /\ NoSession(user, token, isAuthenticated, isLoading)


\* No chat request and no scripted step is outstanding: no timer is pending
\* and every processUserQuery call has returned.
NothingOutstanding ==
    /\ timers = <<>>
    /\ \A n \in DOMAIN calls : calls[n].pc = "done"

\* C24: agent statuses settle, in either version of the Playground: once no
\* chat request and no scripted step is outstanding (no timer pending, no
\* fetch in flight), no agent has status 'processing' and the orchestrator
\* (coordinator) is 'completed' if at least one submission was made; an
\* agent's status never returns to 'idle' once it has left it.
C24_StatusesSettle ==
    /\ [](NothingOutstanding =>
             /\ \A a \in DOMAIN agents : agents[a] # "processing"
             /\ calls # <<>> => agents[Coordinator(version)] = "completed")
    /\ [][\A a \in DOMAIN agents : agents[a] # "idle" => agents'[a] # "idle"]_vars

\* All is settled after the submissions were answered and a scripted
\* recommendation step ran: the orchestrator and the recommender are
\* completed and some agent was never used.
C24_Witness ==
    /\ NothingOutstanding
    /\ version = "generative"
    /\ Len(calls) = MaxSubmits
    /\ nClicks > 0
    /\ agents["orchestrator"] = "completed"
    /\ agents["recommender"] = "completed"
    /\ \E a \in DOMAIN agents : agents[a] = "idle"


=============================================================================
